---- MODULE Spec2Model ----
(***************************************************************************)
(* Model of Juniper/BGP/get-advertised-prefixes.py.                        *)
(*                                                                         *)
(* A Python str is modelled as a sequence of one-character strings, so     *)
(* that `in`, split, replace and the code-point order of str comparison    *)
(* are computed rather than assumed.  A CSV file is modelled as the        *)
(* sequence of its rows, a row as the sequence of its fields.              *)
(***************************************************************************)
EXTENDS Integers, Sequences, FiniteSets, TLC

(* ------------------------------------------------------------------ *)
(* Bounds of the model                                                 *)
(* ------------------------------------------------------------------ *)

\* most route entries in one per-peer file of the aggregation inputs
MaxRoutes == 2

\* most lines in the device-list file
MaxLines == 2

(* ------------------------------------------------------------------ *)
(* Python str helpers                                                  *)
(* ------------------------------------------------------------------ *)

\* the code point of a character (ord), for the characters the model uses
Ord(c) ==
    CASE c = "\n" -> 10
      [] c = " " -> 32
      [] c = "*" -> 42
      [] c = "," -> 44
      [] c = "-" -> 45
      [] c = "." -> 46
      [] c = "/" -> 47
      [] c = "0" -> 48
      [] c = "1" -> 49
      [] c = "2" -> 50
      [] c = "3" -> 51
      [] c = "4" -> 52
      [] c = "5" -> 53
      [] c = "6" -> 54
      [] c = "7" -> 55
      [] c = "8" -> 56
      [] c = "9" -> 57
      [] c = ";" -> 59
      [] c = "A" -> 65
      [] c = "B" -> 66
      [] c = "G" -> 71
      [] c = "I" -> 73
      [] c = "N" -> 78
      [] c = "P" -> 80
      [] c = "S" -> 83
      [] c = "a" -> 97
      [] c = "c" -> 99
      [] c = "e" -> 101
      [] c = "f" -> 102
      [] c = "h" -> 104
      [] c = "i" -> 105
      [] c = "l" -> 108
      [] c = "o" -> 111
      [] c = "p" -> 112
      [] c = "r" -> 114
      [] c = "s" -> 115
      [] c = "t" -> 116
      [] c = "v" -> 118
      [] c = "x" -> 120

RECURSIVE StrLess(_, _)
\* Python's s < t on str: lexicographic on code points, a proper prefix is smaller
StrLess(s, t) ==
    IF t = <<>> THEN FALSE
    ELSE IF s = <<>> THEN TRUE
    ELSE IF Ord(Head(s)) < Ord(Head(t)) THEN TRUE
    ELSE IF Ord(Head(s)) > Ord(Head(t)) THEN FALSE
    ELSE StrLess(Tail(s), Tail(t))

\* c in s, for a one-character c
Contains(s, c) == \E i \in 1..Len(s) : s[i] = c

\* s.replace(c, ''), for a one-character c
Remove(s, c) == SelectSeq(s, LAMBDA x : x # c)

RECURSIVE Split(_, _)
\* s.split(c): the pieces of s between the occurrences of c
Split(s, c) ==
    IF \A i \in 1..Len(s) : s[i] # c THEN << s >>
    ELSE LET k == CHOOSE i \in 1..Len(s) : s[i] = c /\ \A j \in 1..(i-1) : s[j] # c
         IN  << SubSeq(s, 1, k-1) >> \o Split(SubSeq(s, k+1, Len(s)), c)

\* the text of an XML element that has none (lxml's .text is None)
None == << "None" >>

\* what csv.writer writes for a value: None becomes the empty field
CsvField(v) == IF v = None THEN <<>> ELSE v

(* ------------------------------------------------------------------ *)
(* Column names and values                                             *)
(* ------------------------------------------------------------------ *)

sPrefix   == << "P","r","e","f","i","x" >>
sPeer     == << "P","e","e","r" >>
sPeers    == << "P","e","e","r","s" >>
sActive   == << "A","c","t","i","v","e" >>
sProtocol == << "P","r","o","t","o","c","o","l" >>
sNexthop  == << "N","e","x","t","h","o","p" >>
sASPath   == << "A","S"," ","P","a","t","h" >>

\* the header row of a per-peer file
PeerFileHeader == << sPeer, sActive, sPrefix, sProtocol, sNexthop, sASPath >>

\* the field names of the DictWriter of temp.csv
TempFieldNames == << sPrefix, sPeer, sActive, sProtocol, sNexthop, sASPath >>

\* the header row of allPrefixPeers.csv
PrefixPeersHeader == << sPrefix, sPeers >>

p10  == << "1","0",".","0",".","0",".","0","/","8" >>
p1   == << "1",".","0",".","0",".","0","/","8" >>
p192 == << "1","9","2",".","1","6","8",".","0",".","0","/","1","6" >>

vStar == << "*" >>
vBGP  == << "B","G","P" >>
vSelf == << "S","e","l","f" >>
vI    == << "I" >>
vASnl == << "6","5"," ","\n","I" >>
vAS   == << "6","5"," ","I" >>

(* ------------------------------------------------------------------ *)
(* State                                                               *)
(* ------------------------------------------------------------------ *)

VARIABLES
    pc,                 \* where the script is: check, lines, rpc, process, aggregate, done, exit, crash
    device_file,        \* the device-list file: [exists, lines]
    line_no,            \* lines of the device list consumed by main's loop
    hostname,           \* main: hostname of the current line
    external_peers,     \* main: external_peers of the current line
    rpc_index,          \* main: peers of the current line already asked for
    all_peer_prefixes,  \* main: the dict peer -> response, as its items in insertion order
    peer_index,         \* main: peers of the current line already processed
    files,              \* working directory: peer label -> rows of <peer>-prefixes.csv
    allSortedByPrefix,  \* working directory: [exists, rows]
    allPrefixPeers,     \* working directory: [exists, rows]
    prefix_files,       \* parse_prefixes: the per-peer files in os.listdir() order
    all_advertisements, \* parse_prefixes: the rows of temp.csv
    sorted_list,        \* parse_prefixes: sorted_list
    unique_prefixes,    \* parse_prefixes: unique_prefixes
    all_prefix_totals,  \* parse_prefixes: the printed "Total global prefixes"
    rpc_calls,          \* remote calls issued in this run: [line, host, peer, ok]
    writes,             \* per-peer files written in this run: [line, peer, at]
    last_written,       \* peer label -> the records of its latest write in this run
    reported,           \* lines printed after "ERROR with line:"
    exception,          \* what ended the process: "", SystemExit or the uncaught exception
    exit_code           \* the exit status once the process has ended, else -1

vars == << pc, device_file, line_no, hostname, external_peers, rpc_index,
           all_peer_prefixes, peer_index, files, allSortedByPrefix, allPrefixPeers,
           prefix_files, all_advertisements, sorted_list, unique_prefixes,
           all_prefix_totals, rpc_calls, writes, last_written, reported, exception,
           exit_code >>

mainVars == << device_file, line_no, hostname, external_peers, rpc_index,
               all_peer_prefixes, peer_index >>

aggVars == << allSortedByPrefix, allPrefixPeers, prefix_files, all_advertisements,
              sorted_list, unique_prefixes, all_prefix_totals >>

NoFile == [exists |-> FALSE, rows |-> <<>>]

(* ------------------------------------------------------------------ *)
(* parse_prefixes                                                      *)
(* ------------------------------------------------------------------ *)

\* all orders in which os.listdir() can return the files of S
Orders(S) ==
    { o \in [1..Cardinality(S) -> S] : \A i, j \in DOMAIN o : o[i] = o[j] => i = j }

\* one row of a csv.DictReader: field name -> value, None for a missing field
DictRow(fieldnames, row) ==
    [ k \in { fieldnames[j] : j \in 1..Len(fieldnames) } |->
        LET j == CHOOSE j \in 1..Len(fieldnames) :
                    fieldnames[j] = k /\ \A m \in (j+1)..Len(fieldnames) : fieldnames[m] # k
        IN  IF j <= Len(row) THEN row[j] ELSE None ]

\* a reader that takes the first row of the file for a data row as well
DictReaderKeepsHeader(rows) ==
    [ i \in 1..Len(rows) |-> DictRow(rows[1], rows[i]) ]

\* csv.DictReader(file): the first row gives the field names, the others the rows
DictReader(rows) ==
    [ i \in 1..(Len(rows) - 1) |-> DictRow(rows[1], rows[i+1]) ]

\* a writer that keeps the column order of the per-peer file
DictWriterRowFileOrder(d) ==
    [ i \in 1..Len(PeerFileHeader) |->
        IF PeerFileHeader[i] \in DOMAIN d THEN CsvField(d[PeerFileHeader[i]]) ELSE <<>> ]

\* the row a DictWriter with TempFieldNames writes for one dict
DictWriterRow(d) ==
    [ i \in 1..Len(TempFieldNames) |->
        IF TempFieldNames[i] \in DOMAIN d THEN CsvField(d[TempFieldNames[i]]) ELSE <<>> ]

RECURSIVE TempRows(_, _)
\* the data rows appended to temp.csv for the files of order, in that order
TempRows(order, fs) ==
    IF order = <<>> THEN <<>>
    ELSE LET rd == DictReader(fs[Head(order)])
         IN  [ i \in 1..Len(rd) |-> DictWriterRow(rd[i]) ] \o TempRows(Tail(order), fs)

\* temp.csv after the loop over prefix_files: the header is written once
TempCsv(order, fs) == << TempFieldNames >> \o TempRows(order, fs)

\* an unstable placement: before the rows with an equal key
InsertDescUnstable(s, r) ==
    LET k == Cardinality({ i \in 1..Len(s) : StrLess(r[1], s[i][1]) })
    IN  SubSeq(s, 1, k) \o << r >> \o SubSeq(s, k+1, Len(s))

\* where sorted(..., reverse=True) puts row r among the sorted rows s: after every
\* row whose key is not smaller
InsertDesc(s, r) ==
    LET k == Cardinality({ i \in 1..Len(s) : ~ StrLess(s[i][1], r[1]) })
    IN  SubSeq(s, 1, k) \o << r >> \o SubSeq(s, k+1, Len(s))

RECURSIVE SortedAscending(_)
\* the sort without reverse=True
SortedAscending(rows) ==
    IF rows = <<>> THEN <<>>
    ELSE LET s == SortedAscending(SubSeq(rows, 1, Len(rows) - 1))
             r == rows[Len(rows)]
             k == Cardinality({ i \in 1..Len(s) : ~ StrLess(r[1], s[i][1]) })
         IN  SubSeq(s, 1, k) \o << r >> \o SubSeq(s, k+1, Len(s))

RECURSIVE SortedDesc(_)
\* sorted(rows, key=operator.itemgetter(0), reverse=True)
SortedDesc(rows) ==
    IF rows = <<>> THEN <<>>
    ELSE InsertDesc(SortedDesc(SubSeq(rows, 1, Len(rows) - 1)), rows[Len(rows)])

RECURSIVE UniquePrefixesNoMembershipTest(_, _)
\* the loop without the "not in unique_prefixes" test
UniquePrefixesNoMembershipTest(rows, acc) ==
    IF rows = <<>> THEN acc
    ELSE IF Head(rows)[1] # sPrefix
         THEN UniquePrefixesNoMembershipTest(Tail(rows), Append(acc, Head(rows)[1]))
         ELSE UniquePrefixesNoMembershipTest(Tail(rows), acc)

RECURSIVE UniquePrefixes(_, _)
\* the loop that fills unique_prefixes, acc being the list so far
UniquePrefixes(rows, acc) ==
    IF rows = <<>> THEN acc
    ELSE LET p == Head(rows)[1]
         IN  IF (\A i \in 1..Len(acc) : acc[i] # p) /\ p # sPrefix
             THEN UniquePrefixes(Tail(rows), Append(acc, p))
             ELSE UniquePrefixes(Tail(rows), acc)

\* find_peers(prefix, sorted_list)
find_peers(prefix, rows) ==
    LET hit == SelectSeq(rows, LAMBDA row : row[1] = prefix)
    IN  [ i \in 1..Len(hit) |-> hit[i][2] ]

\* the rows written to allPrefixPeers.csv
PrefixPeersRows(uniq, rows) ==
    << PrefixPeersHeader >> \o
    [ i \in 1..Len(uniq) |-> << uniq[i] >> \o find_peers(uniq[i], rows) ]

\* parse_prefixes() and the removal of temp.csv that follows it in main
parse_prefixes ==
    /\ pc = "aggregate"
    /\ \E order \in Orders(DOMAIN files) :
        /\ prefix_files' = order
        /\ IF order = <<>>
           THEN \* temp.csv was never created: open('temp.csv') raises
                /\ pc' = "crash"
                /\ exception' = "FileNotFoundError"
                /\ exit_code' = 1
                /\ UNCHANGED << allSortedByPrefix, allPrefixPeers, all_advertisements,
                                sorted_list, unique_prefixes, all_prefix_totals >>
           ELSE LET temp == TempCsv(order, files)
                    srt  == SortedDesc(temp)
                    uniq == UniquePrefixes(srt, <<>>)
                IN  /\ all_advertisements' = temp
                    /\ sorted_list' = srt
                    /\ allSortedByPrefix' = [exists |-> TRUE, rows |-> srt]
                    /\ unique_prefixes' = uniq
                    /\ allPrefixPeers' = [exists |-> TRUE, rows |-> PrefixPeersRows(uniq, srt)]
                    /\ all_prefix_totals' = Len(uniq)
                    /\ pc' = "done"
                    /\ exit_code' = 0
                    /\ UNCHANGED exception
    /\ UNCHANGED << mainVars, files, rpc_calls, writes, last_written, reported >>

(* ------------------------------------------------------------------ *)
(* Inputs: device-list lines and remote responses                      *)
(* ------------------------------------------------------------------ *)

\* "r1,p3,p3\n": one device, the same peer listed twice
lnDup     == << "r","1",",","p","3",",","p","3","\n" >>
\* "r2, p3, p4\n": one device with two peers
lnTwo     == << "r","2",","," ","p","3",","," ","p","4","\n" >>
\* ";r9,p9\n": a comment
lnComment == << ";","r","9",",","p","9","\n" >>
\* "1,p4\n": no r marker
lnNoR     == << "1",",","p","4","\n" >>
\* "r1,3\n": no p marker
lnNoP     == << "r","1",",","3","\n" >>
\* "\n": a blank line
lnBlank   == << "\n" >>

Lines == { lnDup, lnTwo, lnComment, lnNoR, lnNoP, lnBlank }

\* the device-list files of the model: absent, or up to MaxLines lines
DeviceFiles ==
    { [exists |-> FALSE, lines |-> <<>>] } \cup
    { [exists |-> TRUE, lines |-> ls] :
        ls \in UNION { [1..n -> Lines] : n \in 0..MaxLines } }

\* a response document, as the five node sets main queries from it
Doc(rt, active, protocol, as, to) ==
    [ rt |-> rt, active |-> active, protocol |-> protocol, as |-> as, to |-> to ]

\* no route entries
docEmpty == Doc(<<>>, <<>>, <<>>, <<>>, <<>>)
\* two aligned route entries
docTwo   == Doc(<< p10, p1 >>, << vStar, vStar >>, << vBGP, vBGP >>,
                << vASnl, vI >>, << vSelf, vSelf >>)
\* an active-tag is missing: that node set is shorter than the prefixes
docShort == Doc(<< p10, p1 >>, << vStar >>, << vBGP, vBGP >>,
                << vI, vI >>, << vSelf, vSelf >>)
\* a route with two next hops: that node set is longer than the prefixes
docLong  == Doc(<< p192 >>, << vStar >>, << vBGP >>, << vI >>, << vSelf, vBGP >>)
\* an active-tag without text
docNoTag == Doc(<< p1 >>, << None >>, << vBGP >>, << vI >>, << vSelf >>)
\* an as-path without text
docNoAS  == Doc(<< p1 >>, << vStar >>, << vBGP >>, << None >>, << vSelf >>)

Documents == { docEmpty, docTwo, docShort, docLong, docNoTag, docNoAS }

(* ------------------------------------------------------------------ *)
(* main: extraction and the per-peer file                              *)
(* ------------------------------------------------------------------ *)

\* an extraction that insists on node sets of equal length
RecordOutcomeStrict(doc, i) ==
    IF \E a \in { doc.active, doc.protocol, doc.as, doc.to } : Len(a) # Len(doc.rt)
    THEN "IndexError"
    ELSE IF doc.as[i] = None THEN "AttributeError"
    ELSE "ok"

\* how building the record at index i (1-based) ends, the dict literal being
\* evaluated in the order prefix, active, protocol, AS, nexthop
RecordOutcome(doc, i) ==
    IF i > Len(doc.active) THEN "IndexError"
    ELSE IF i > Len(doc.protocol) THEN "IndexError"
    ELSE IF i > Len(doc.as) THEN "IndexError"
    ELSE IF doc.as[i] = None THEN "AttributeError"
    ELSE IF i > Len(doc.to) THEN "IndexError"
    ELSE "ok"

\* how the loop over range(0, len(prefixes)) ends: "ok" or the first exception
ExtractOutcome(doc) ==
    LET bad == { i \in 1..Len(doc.rt) : RecordOutcome(doc, i) # "ok" }
    IN  IF bad = {} THEN "ok"
        ELSE RecordOutcome(doc, CHOOSE i \in bad : \A j \in bad : i <= j)

\* all_prefixes, when the loop ends normally
Records(doc) ==
    [ i \in 1..Len(doc.rt) |->
        [ prefix   |-> doc.rt[i],
          active   |-> doc.active[i],
          protocol |-> doc.protocol[i],
          AS       |-> Remove(doc.as[i], "\n"),
          nexthop  |-> doc.to[i] ] ]

\* the rows csv.writer puts into <peer>-prefixes.csv
PeerFileRows(peer, recs) ==
    << PeerFileHeader >> \o
    [ i \in 1..Len(recs) |->
        << CsvField(peer), CsvField(recs[i].active), CsvField(recs[i].prefix),
           CsvField(recs[i].protocol), CsvField(recs[i].nexthop), CsvField(recs[i].AS) >> ]

\* the file opened in append mode
WritePeerFileAppend(fs, peer, recs) ==
    [ f \in DOMAIN fs \cup { peer } |->
        IF f # peer THEN fs[f]
        ELSE IF peer \in DOMAIN fs THEN fs[peer] \o PeerFileRows(peer, recs)
        ELSE PeerFileRows(peer, recs) ]

\* open(cur_file, 'w') and the rows written: the file holds these rows only
WritePeerFile(fs, peer, recs) ==
    [ f \in DOMAIN fs \cup { peer } |->
        IF f = peer THEN PeerFileRows(peer, recs) ELSE fs[f] ]

\* d[key] = value on a dict kept as its items in insertion order
DictSet(d, key, value) ==
    IF \E i \in 1..Len(d) : d[i].peer = key
    THEN [ i \in 1..Len(d) |-> IF d[i].peer = key THEN [peer |-> key, doc |-> value] ELSE d[i] ]
    ELSE Append(d, [peer |-> key, doc |-> value])

\* line.strip(): without the leading and trailing blanks and newlines
Strip(s) ==
    LET keep == { i \in 1..Len(s) : s[i] \notin { " ", "\n" } }
    IN  IF keep = {} THEN <<>>
        ELSE SubSeq(s, CHOOSE i \in keep : \A j \in keep : i <= j,
                       CHOOSE i \in keep : \A j \in keep : j <= i)

\* the lines input_file_check rejects: no ";", an "r" and no "p"
RejectedLine(line) ==
    /\ ~ Contains(line, ";")
    /\ Contains(line, "r")
    /\ ~ Contains(line, "p")

\* main: hostname = line_items[0].replace('r', '')
HostnameOf(line) == Remove(Split(line, ",")[1], "r")

\* main: external_peers, the items of the line that contain "p", cleaned
ExternalPeersOf(line) ==
    LET items == SelectSeq(Split(line, ","), LAMBDA it : Contains(it, "p"))
    IN  [ i \in 1..Len(items) |-> Remove(Remove(Remove(items[i], "p"), "\n"), " ") ]

\* number of remote calls and file writes so far, the position of the next event
Clock == Len(rpc_calls) + Len(writes)

(* ------------------------------------------------------------------ *)
(* Actions                                                             *)
(* ------------------------------------------------------------------ *)

\* input_file_check(router_list), then the prompts of main
input_file_check ==
    /\ pc = "check"
    /\ IF ~ device_file.exists
       THEN /\ pc' = "exit"
            /\ exception' = "SystemExit"
            /\ exit_code' = 1
            /\ UNCHANGED reported
       ELSE LET bad == { i \in 1..Len(device_file.lines) : RejectedLine(device_file.lines[i]) }
            IN  IF bad # {}
                THEN /\ reported' = << Strip(device_file.lines[CHOOSE i \in bad :
                                                               \A j \in bad : i <= j]) >>
                     /\ pc' = "exit"
                     /\ exception' = "SystemExit"
                     /\ exit_code' = 1
                ELSE /\ pc' = "lines"
                     /\ UNCHANGED << reported, exception, exit_code >>
    /\ UNCHANGED << mainVars, files, aggVars, rpc_calls, writes, last_written >>

\* main: one iteration head of "for line in f", up to the loop over external_peers
ReadLine ==
    /\ pc = "lines"
    /\ line_no < Len(device_file.lines)
    /\ line_no' = line_no + 1
    /\ LET line == device_file.lines[line_no + 1]
       IN  IF Contains(line, ";")
           THEN UNCHANGED << pc, hostname, external_peers, rpc_index,
                             all_peer_prefixes, peer_index >>
           ELSE /\ hostname' = HostnameOf(line)
                /\ external_peers' = ExternalPeersOf(line)
                /\ all_peer_prefixes' = <<>>
                /\ rpc_index' = 0
                /\ peer_index' = 0
                /\ pc' = IF ExternalPeersOf(line) = <<>> THEN "lines" ELSE "rpc"
    /\ UNCHANGED << device_file, files, aggVars, rpc_calls, writes, last_written,
                    reported, exception, exit_code >>

\* main: the device list is exhausted, parse_prefixes() is next
EndOfLines ==
    /\ pc = "lines"
    /\ line_no = Len(device_file.lines)
    /\ pc' = "aggregate"
    /\ UNCHANGED << mainVars, files, aggVars, rpc_calls, writes, last_written,
                    reported, exception, exit_code >>

\* each peer processed right after its own call
rpc_execute_then_process ==
    /\ pc = "rpc"
    /\ rpc_index < Len(external_peers)
    /\ \E doc \in Documents :
        LET bgp_peer == external_peers[rpc_index + 1]
        IN  /\ all_peer_prefixes' = DictSet(all_peer_prefixes, bgp_peer, doc)
            /\ rpc_calls' = Append(rpc_calls, [line |-> line_no, host |-> hostname,
                                               peer |-> bgp_peer, ok |-> TRUE, at |-> Clock])
    /\ rpc_index' = rpc_index + 1
    /\ pc' = "process"
    /\ UNCHANGED << device_file, line_no, hostname, external_peers, peer_index,
                    files, aggVars, writes, last_written, reported, exception,
                    exit_code >>

\* rpc_execute for the next peer of the line: the call returns a document
rpc_execute_ok ==
    /\ pc = "rpc"
    /\ rpc_index < Len(external_peers)
    /\ \E doc \in Documents :
        LET bgp_peer == external_peers[rpc_index + 1]
        IN  /\ all_peer_prefixes' = DictSet(all_peer_prefixes, bgp_peer, doc)
            /\ rpc_calls' = Append(rpc_calls, [line |-> line_no, host |-> hostname,
                                               peer |-> bgp_peer, ok |-> TRUE, at |-> Clock])
    /\ rpc_index' = rpc_index + 1
    /\ pc' = IF rpc_index + 1 = Len(external_peers) THEN "process" ELSE "rpc"
    /\ UNCHANGED << device_file, line_no, hostname, external_peers, peer_index,
                    files, aggVars, writes, last_written, reported, exception,
                    exit_code >>

\* a failure that only gives up the current device
rpc_execute_fail_skips_device ==
    /\ pc = "rpc"
    /\ rpc_index < Len(external_peers)
    /\ rpc_calls' = Append(rpc_calls, [line |-> line_no, host |-> hostname,
                                       peer |-> external_peers[rpc_index + 1],
                                       ok |-> FALSE, at |-> Clock])
    /\ pc' = "lines"
    /\ UNCHANGED << mainVars, files, aggVars, writes, last_written, reported,
                    exception, exit_code >>

\* rpc_execute for the next peer of the line: ConnectError or any other Exception
rpc_execute_fail ==
    /\ pc = "rpc"
    /\ rpc_index < Len(external_peers)
    /\ rpc_calls' = Append(rpc_calls, [line |-> line_no, host |-> hostname,
                                       peer |-> external_peers[rpc_index + 1],
                                       ok |-> FALSE, at |-> Clock])
    /\ pc' = "exit"
    /\ exception' = "SystemExit"
    /\ exit_code' = 1
    /\ UNCHANGED << mainVars, files, aggVars, writes, last_written, reported >>

\* main: one iteration of "for peer in all_peer_prefixes": extraction, console
\* table and <peer>-prefixes.csv
ProcessPeer ==
    /\ pc = "process"
    /\ peer_index < Len(all_peer_prefixes)
    /\ LET peer == all_peer_prefixes[peer_index + 1].peer
           doc  == all_peer_prefixes[peer_index + 1].doc
       IN  IF ExtractOutcome(doc) # "ok"
           THEN /\ pc' = "crash"
                /\ exception' = ExtractOutcome(doc)
                /\ exit_code' = 1
                /\ UNCHANGED << peer_index, files, writes, last_written >>
           ELSE /\ peer_index' = peer_index + 1
                /\ files' = WritePeerFile(files, peer, Records(doc))
                /\ writes' = Append(writes, [line |-> line_no, peer |-> peer, at |-> Clock])
                /\ last_written' = [ f \in DOMAIN last_written \cup { peer } |->
                                       IF f = peer THEN Records(doc) ELSE last_written[f] ]
                /\ pc' = IF peer_index + 1 = Len(all_peer_prefixes) THEN "lines" ELSE "process"
                /\ UNCHANGED << exception, exit_code >>
    /\ UNCHANGED << device_file, line_no, hostname, external_peers, rpc_index,
                    all_peer_prefixes, aggVars, rpc_calls, reported >>

(* ------------------------------------------------------------------ *)
(* Specifications                                                      *)
(* ------------------------------------------------------------------ *)

\* peer labels of the working directories the model starts from
peer3 == << "3" >>
peer4 == << "4" >>
peer5 == << "5" >>

\* the empty working directory
NoFiles == [ f \in {} |-> <<>> ]

\* working directories at the start of a run: empty, or a file of an earlier run
StaleDirs == { NoFiles, WritePeerFile(NoFiles, peer3, Records(docTwo)) }

InitCommon ==
    /\ hostname = <<>>
    /\ external_peers = <<>>
    /\ rpc_index = 0
    /\ all_peer_prefixes = <<>>
    /\ peer_index = 0
    /\ allSortedByPrefix = NoFile
    /\ allPrefixPeers = NoFile
    /\ prefix_files = <<>>
    /\ all_advertisements = <<>>
    /\ sorted_list = <<>>
    /\ unique_prefixes = <<>>
    /\ all_prefix_totals = 0
    /\ rpc_calls = <<>>
    /\ writes = <<>>
    /\ last_written = NoFiles
    /\ reported = <<>>
    /\ exception = ""
    /\ exit_code = -1

\* a run of the script from its start
Init ==
    /\ pc = "check"
    /\ device_file \in DeviceFiles
    /\ line_no = 0
    /\ files \in StaleDirs
    /\ InitCommon

Next ==
    \/ input_file_check
    \/ ReadLine
    \/ EndOfLines
    \/ rpc_execute_ok
    \/ rpc_execute_fail
    \/ ProcessPeer
    \/ parse_prefixes

Spec == Init /\ [][Next]_vars

\* the route records of the per-peer files of earlier runs
AggPrefixes == { p10, p1, p192 }

AggRecords ==
    { [ i \in 1..Len(ps) |-> [ prefix |-> ps[i], active |-> vStar, protocol |-> vBGP,
                               AS |-> vAS, nexthop |-> vSelf ] ] :
        ps \in UNION { [1..n -> AggPrefixes] : n \in 0..MaxRoutes } }

AggPeers == { peer3, peer4 }

\* the records of the file of a third peer, when the directory holds one
AggThird == [ i \in 1..1 |-> [ prefix |-> p10, active |-> vStar, protocol |-> vBGP,
                               AS |-> vAS, nexthop |-> vSelf ] ]

\* working directories holding per-peer files written by earlier runs
AggDirs ==
    LET two == UNION { { [ f \in S |-> PeerFileRows(f, rs[f]) ] : rs \in [S -> AggRecords] } :
                       S \in SUBSET AggPeers }
    IN  two \cup { WritePeerFile(d, peer5, AggThird) : d \in two }

\* a run whose device list holds one comment line, at the call of parse_prefixes()
AggInit ==
    /\ pc = "aggregate"
    /\ device_file = [exists |-> TRUE, lines |-> << lnComment >>]
    /\ line_no = 1
    /\ files \in AggDirs
    /\ InitCommon

AggNext == parse_prefixes

SpecAgg == AggInit /\ [][AggNext]_vars

(* ------------------------------------------------------------------ *)
(* Properties of the aggregation stage (checked under SpecAgg)         *)
(* ------------------------------------------------------------------ *)

\* every row whose prefix column is a comes before every row whose prefix column is b
Before(rows, a, b) ==
    \A i, j \in 1..Len(rows) : (rows[i][1] = a /\ rows[j][1] = b) => i < j

\* the prefix column holds each of the three prefixes of the sorting example
HasExample(rows) ==
    \A p \in { p10, p1, p192 } : \E i \in 1..Len(rows) : rows[i][1] = p

\* how often row r occurs in rows
Occurrences(rows, r) == Cardinality({ i \in 1..Len(rows) : rows[i] = r })

\* C1 as stated: the sorted combined table orders the prefixes of the example
\* "192.168.0.0/16", "1.0.0.0/8", "10.0.0.0/8".
C1_ExampleAsStated ==
    (pc = "done" /\ HasExample(sorted_list)) =>
        /\ Before(sorted_list, p192, p1)
        /\ Before(sorted_list, p1, p10)

\* C1 amended: the sorted combined table holds the rows of temp.csv, in descending
\* code-point order of the prefix column (no CIDR awareness), it is what
\* allSortedByPrefix.csv holds, and the prefixes of the example come out as
\* "192.168.0.0/16", "10.0.0.0/8", "1.0.0.0/8".
C1_SortedDescending ==
    pc = "done" =>
        /\ \A i, j \in 1..Len(sorted_list) :
              i < j => ~ StrLess(sorted_list[i][1], sorted_list[j][1])
        /\ Len(sorted_list) = Len(all_advertisements)
        /\ \A i \in 1..Len(all_advertisements) :
              Occurrences(sorted_list, all_advertisements[i])
                = Occurrences(all_advertisements, all_advertisements[i])
        /\ allSortedByPrefix = [exists |-> TRUE, rows |-> sorted_list]
        /\ Before(sorted_list, p192, p10)
        /\ Before(sorted_list, p10, p1)
        /\ Before(sorted_list, sPrefix, p192)

\* the aggregation ran over files that hold the three prefixes of the example
C1_Witness == pc = "done" /\ HasExample(sorted_list)

\* the prefix values of the data rows of the per-peer files (column Prefix)
DataPrefixes ==
    UNION { { files[f][i][3] : i \in 2..Len(files[f]) } : f \in DOMAIN files }

\* the data rows of allPrefixPeers.csv
PrefixIndex == Tail(allPrefixPeers.rows)

\* C5: after aggregation the prefix-to-peers index holds every distinct prefix of
\* the data rows of the per-peer files exactly once, no entry for header text, and
\* the printed total is the number of distinct prefixes.
C5_IndexOfDistinctPrefixes ==
    pc = "done" =>
        /\ allPrefixPeers.exists
        /\ allPrefixPeers.rows[1] = PrefixPeersHeader
        /\ { PrefixIndex[k][1] : k \in 1..Len(PrefixIndex) } = DataPrefixes
        /\ Len(PrefixIndex) = Cardinality(DataPrefixes)
        /\ \A k \in 1..Len(PrefixIndex) : PrefixIndex[k][1] # sPrefix
        /\ all_prefix_totals = Cardinality(DataPrefixes)

\* some prefix occurs in the data rows of two files and another prefix exists
C5_Witness ==
    /\ pc = "done"
    /\ Cardinality(DataPrefixes) >= 2
    /\ \E f, g \in DOMAIN files :
          /\ f # g
          /\ \E i \in 2..Len(files[f]) : \E j \in 2..Len(files[g]) :
                files[f][i][3] = files[g][j][3]

RECURSIVE PeersInFileOrder(_, _, _)
\* the peer labels (column Peer) of the data rows with the given prefix, in the
\* order of the files of order and of the rows in each file
PeersInFileOrder(order, fs, prefix) ==
    IF order = <<>> THEN <<>>
    ELSE LET hit == SelectSeq(Tail(fs[Head(order)]), LAMBDA row : row[3] = prefix)
         IN  [ i \in 1..Len(hit) |-> hit[i][1] ] \o PeersInFileOrder(Tail(order), fs, prefix)

\* C6: the peer list of each unique prefix is the sequence of the peer labels of
\* all rows with that prefix, in the order of the concatenation of the per-peer
\* files, one entry per row (no de-duplication).
C6_PeersInConcatenationOrder ==
    pc = "done" =>
        \A k \in 1..Len(PrefixIndex) :
            Tail(PrefixIndex[k]) = PeersInFileOrder(prefix_files, files, PrefixIndex[k][1])

\* a prefix advertised twice by one peer and also by two other peers
C6_Witness ==
    /\ pc = "done"
    /\ \E k \in 1..Len(PrefixIndex) :
          LET peers == Tail(PrefixIndex[k])
          IN  /\ Len(peers) >= 4
              /\ Cardinality({ peers[i] : i \in 1..Len(peers) }) = 3
              /\ peers[1] # peers[Len(peers)]

\* the number of data rows of the per-peer files
DataRowCount(S) == Cardinality({ << f, i >> \in S \X (1..(MaxRoutes + 2)) :
                                   i >= 2 /\ i <= Len(files[f]) })

\* C8: the combined table and allSortedByPrefix.csv hold exactly one header row,
\* and the header rows of the per-peer files do not appear as data rows.
C8_OneHeaderRow ==
    pc = "done" =>
        /\ all_advertisements[1] = TempFieldNames
        /\ Occurrences(all_advertisements, TempFieldNames) = 1
        /\ Occurrences(allSortedByPrefix.rows, TempFieldNames) = 1
        /\ Occurrences(allSortedByPrefix.rows, PeerFileHeader) = 0
        /\ Len(allSortedByPrefix.rows) = 1 + DataRowCount(DOMAIN files)

\* three per-peer files were merged
C8_Witness ==
    /\ pc = "done"
    /\ Len(prefix_files) = 3
    /\ Len(allSortedByPrefix.rows) >= 4

(* ------------------------------------------------------------------ *)
(* Properties of a run (checked under Spec)                            *)
(* ------------------------------------------------------------------ *)

\* a line without ";" that lacks the r marker or the p marker
MarkerMissing(line) ==
    /\ ~ Contains(line, ";")
    /\ (~ Contains(line, "r") \/ ~ Contains(line, "p"))

\* every line of the device list is a comment or carries both markers
WellFormedList ==
    \A i \in 1..Len(device_file.lines) : ~ MarkerMissing(device_file.lines[i])

\* no two lines of the device list name the same device
DistinctDevices ==
    \A i, j \in 1..Len(device_file.lines) :
        (/\ i # j
         /\ ~ Contains(device_file.lines[i], ";")
         /\ ~ Contains(device_file.lines[j], ";"))
        => HostnameOf(device_file.lines[i]) # HostnameOf(device_file.lines[j])

\* the positions of the non-blank lines of the device list that lack a marker
MarkerMissingLines ==
    { i \in 1..Len(device_file.lines) :
        MarkerMissing(device_file.lines[i]) /\ Strip(device_file.lines[i]) # <<>> }

\* C2: if a (non-blank) line without ";" lacks the r marker or the p marker,
\* input_file_check reports the line and the process exits with code 1 before any
\* remote call is issued.
C2_MarkerMissingIsFatal ==
    (device_file.exists /\ MarkerMissingLines # {}) =>
        /\ rpc_calls = <<>>
        /\ pc # "check" =>
              /\ pc = "exit"
              /\ exit_code = 1
              /\ \E i \in MarkerMissingLines : reported = << Strip(device_file.lines[i]) >>

\* the remote call at position k of rpc_calls failed
FailedCall(k) == k \in 1..Len(rpc_calls) /\ ~ rpc_calls[k].ok

\* C4: when a remote call fails the process ends at once with exit code 1: it is
\* the last remote call, no per-peer file is written after it, and the
\* aggregation never runs, so neither aggregate file is written.
C4_RemoteFailureEndsRun ==
    \A k \in 1..Len(rpc_calls) :
        FailedCall(k) =>
            /\ pc = "exit"
            /\ exit_code = 1
            /\ exception = "SystemExit"
            /\ k = Len(rpc_calls)
            /\ \A i \in 1..Len(writes) : writes[i].at < rpc_calls[k].at
            /\ prefix_files = <<>>
            /\ sorted_list = <<>>
            /\ ~ allSortedByPrefix.exists
            /\ ~ allPrefixPeers.exists

\* a call failed after a file was written and while a peer of the device was left
C4_Witness ==
    /\ FailedCall(Len(rpc_calls))
    /\ writes # <<>>
    /\ rpc_index + 1 < Len(external_peers)

\* the rows a per-peer file holds for the records recs of peer
ExpectedFileRows(peer, recs) ==
    [ i \in 1..(Len(recs) + 1) |->
        IF i = 1 THEN << sPeer, sActive, sPrefix, sProtocol, sNexthop, sASPath >>
        ELSE << peer, CsvField(recs[i-1].active), CsvField(recs[i-1].prefix),
                CsvField(recs[i-1].protocol), CsvField(recs[i-1].nexthop),
                CsvField(recs[i-1].AS) >> ]

\* C9: after any sequence of writes for one peer label the file holds the header
\* row followed by one row per record of the latest write, and nothing of earlier
\* writes or of an earlier run.
C9_FileHoldsLatestWriteOnly ==
    \A f \in DOMAIN last_written :
        /\ f \in DOMAIN files
        /\ Len(files[f]) = 1 + Len(last_written[f])
        /\ files[f] = ExpectedFileRows(f, last_written[f])

\* a label written twice in the run, the latest write having no records
C9_Witness ==
    \E i, j \in 1..Len(writes) :
        /\ i < j
        /\ writes[i].peer = writes[j].peer
        /\ last_written[writes[i].peer] = <<>>
        /\ files[writes[i].peer] = << PeerFileHeader >>

\* the rows of the combined table that carry the peer label peer
RowsOfPeer(rows, peer) == SelectSeq(Tail(rows), LAMBDA row : row[2] = peer)

Misaligned(doc) ==
    \E a \in { doc.active, doc.protocol, doc.as, doc.to } : Len(a) # Len(doc.rt)

\* one of the four other node sets of doc is shorter than the prefixes
Shorter(doc) ==
    \E a \in { doc.active, doc.protocol, doc.as, doc.to } : Len(a) < Len(doc.rt)

\* an as-path of doc, at a position that has a prefix, has no text
AsPathWithoutText(doc) ==
    \E i \in 1..Len(doc.rt) : i <= Len(doc.as) /\ doc.as[i] = None

\* the process ended in the extraction of the item at position k
FailedExtraction(k) ==
    /\ pc = "crash"
    /\ exception \in { "IndexError", "AttributeError" }
    /\ k = peer_index + 1

Aborted == rpc_calls # <<>> /\ FailedCall(Len(rpc_calls))

\* the remote calls of the line of write w that returned before w
CallsBefore(w) ==
    { k \in 1..Len(rpc_calls) :
        rpc_calls[k].line = w.line /\ rpc_calls[k].ok /\ rpc_calls[k].at < w.at }

\* the calls of a device all return before a file of one of its peers is written
CallsPrecedeWrites ==
    \A i \in 1..Len(writes) :
        /\ Cardinality(CallsBefore(writes[i]))
              = Len(ExternalPeersOf(device_file.lines[writes[i].line]))
        /\ \A k \in 1..Len(rpc_calls) :
              rpc_calls[k].line = writes[i].line => rpc_calls[k].at < writes[i].at

\* every per-peer file written in the run holds the header and all its records
WrittenFilesComplete ==
    \A f \in DOMAIN last_written : files[f] = ExpectedFileRows(f, last_written[f])

====
